---- MODULE Spec2Model ----
(***************************************************************************)
(* Grid path planning, Dijkstra and A-star: planning_demo.py               *)
(*                                                                         *)
(* Besides the program's tables the state holds three auxiliary variables: *)
(* iterations (how many times the loop body was entered), broke (whether   *)
(* the loop left by its break) and shortest (the table of least path costs *)
(* from start, a function of the inputs that no step changes).             *)
(*                                                                         *)
(* Numbers.  A cost is either +infinity or a + b*sqrt(2) with a, b natural *)
(* numbers, kept exactly as the record [inf, a, b]; sqrt(2) is irrational, *)
(* so two finite costs are equal iff their records are equal.  Occupancy   *)
(* probabilities are kept in tenths (5 is 0.5), so 10 * prob_occ is an     *)
(* integer.  Floating-point rounding of the sums is not modelled.          *)
(***************************************************************************)
EXTENDS Integers, Sequences, FiniteSets, TLC

VARIABLES shape, occ_map, start, goal, heuristic, shortest,
          costs, closed_flags, predecessors, parent,
          paths, path_length, iterations, broke, pc

vars == <<shape, occ_map, start, goal, heuristic, shortest, costs, closed_flags,
          predecessors, parent, paths, path_length, iterations, broke, pc>>

----------------------------------------------------------------------------
(* Bounds of the checked inputs *)

MaxX == 4

MaxY == 3

MaxCells == 9

MaxOccupied == 1

MaxHeuristic == 2

(* Program constants *)

OccThreshold == 5

OccWeight == 10

----------------------------------------------------------------------------
(* Exact arithmetic on costs *)

Inf == [inf |-> TRUE, a |-> 0, b |-> 0]

Fin(a, b) == [inf |-> FALSE, a |-> a, b |-> b]

Zero == Fin(0, 0)

Add(c, d) ==
    IF c.inf \/ d.inf THEN Inf ELSE Fin(c.a + d.a, c.b + d.b)

\* c < d as numpy compares floats: inf < inf is False
Less(c, d) ==
    IF c.inf THEN FALSE
    ELSE IF d.inf THEN TRUE
    ELSE LET da == c.a - d.a
             db == d.b - c.b
         IN  IF db = 0 THEN da < 0
             ELSE IF db > 0 THEN da < 0 \/ da * da < 2 * db * db
             ELSE da < 0 /\ da * da > 2 * db * db

----------------------------------------------------------------------------
(* Grid *)

Cells(shp) == (0 .. shp[1] - 1) \X (0 .. shp[2] - 1)

NoCell == <<-1, -1>>

\* position of a cell in the flattened (C order) array
FlatIndex(c, shp) == c[1] * shp[2] + c[2]

\* numpy indexing of one axis of length n: negative indices wrap, others raise
InRange(i, n) == -n <= i /\ i < n

Wrap(i, n) == IF i < 0 THEN i + n ELSE i

Indexable(c, shp) == InRange(c[1], shp[1]) /\ InRange(c[2], shp[2])

At(c, shp) == <<Wrap(c[1], shp[1]), Wrap(c[2], shp[2])>>

Deltas == << <<-1, -1>>, <<-1, 0>>, <<-1, 1>>,
             << 0, -1>>, << 0, 0>>, << 0, 1>>,
             << 1, -1>>, << 1, 0>>, << 1, 1>> >>

\* a neighbourhood whose upper x bound is off by one
get_neighborhood_short(cell, shp) ==
    LET xlim == shp[1] - 1
        ylim == shp[2] - 1
        cand == [i \in 1 .. 9 |-> <<cell[1] + Deltas[i][1], cell[2] + Deltas[i][2]>>]
        keep(n) == /\ n # cell
                   /\ ~(n[1] < 0 \/ n[1] >= xlim)
                   /\ ~(n[2] < 0 \/ n[2] > ylim)
    IN  SelectSeq(cand, keep)

\* a neighbourhood of the four orthogonal neighbours only
get_neighborhood_orthogonal(cell, shp) ==
    LET xlim == shp[1] - 1
        ylim == shp[2] - 1
        cand == [i \in 1 .. 9 |-> <<cell[1] + Deltas[i][1], cell[2] + Deltas[i][2]>>]
        keep(n) == /\ n # cell
                   /\ n[1] = cell[1] \/ n[2] = cell[2]
                   /\ ~(n[1] < 0 \/ n[1] > xlim)
                   /\ ~(n[2] < 0 \/ n[2] > ylim)
    IN  SelectSeq(cand, keep)

\* lines 17-35: the in-bounds cells around cell, delta_x outer, delta_y inner
get_neighborhood(cell, shp) ==
    LET xlim == shp[1] - 1
        ylim == shp[2] - 1
        cand == [i \in 1 .. 9 |-> <<cell[1] + Deltas[i][1], cell[2] + Deltas[i][2]>>]
        keep(n) == /\ n # cell
                   /\ ~(n[1] < 0 \/ n[1] > xlim)
                   /\ ~(n[2] < 0 \/ n[2] > ylim)
    IN  SelectSeq(cand, keep)

Abs(i) == IF i < 0 THEN -i ELSE i

\* a step length that counts a diagonal step as two
norm_manhattan(p, c) == Fin(Abs(p[1] - c[1]) + Abs(p[2] - c[2]), 0)

\* np.linalg.norm(p - c) for the differences the program takes it of
norm(p, c) ==
    LET dx == Abs(p[1] - c[1])
        dy == Abs(p[2] - c[2])
    IN  CASE dx = 0  -> Fin(dy, 0)
          [] dy = 0  -> Fin(dx, 0)
          [] dx = dy -> Fin(0, dx)

\* an occupancy test that lets a probability of exactly 0.5 through
get_edge_cost_strict(par, child, occ) ==
    LET prob_occ == occ[child]
    IN  IF prob_occ > OccThreshold THEN Inf
        ELSE Add(norm(par, child), Fin((OccWeight * prob_occ) \div 10, 0))

\* an occupancy test that is applied to the parent of the edge as well
get_edge_cost_both_ends(par, child, occ) ==
    LET prob_occ == occ[child]
    IN  IF prob_occ >= OccThreshold \/ occ[par] >= OccThreshold THEN Inf
        ELSE Add(norm(par, child), Fin((OccWeight * prob_occ) \div 10, 0))

\* lines 50-61: occ holds tenths, so 10 * prob_occ is (OccWeight * tenths) / 10
get_edge_cost(par, child, occ) ==
    LET prob_occ == occ[child]
    IN  IF prob_occ >= OccThreshold THEN Inf
        ELSE Add(norm(par, child), Fin((OccWeight * prob_occ) \div 10, 0))

\* lines 74-83: the heuristic of Dijkstra's algorithm
get_heuristic(cell, g) == Zero

----------------------------------------------------------------------------
(* One iteration of the search loop, as operators on the three tables *)

\* priorities that leave the closed cells in
open_costs_unmasked(cst, closed, heur, shp) ==
    [c \in Cells(shp) |-> Add(cst[c], heur[c])]

\* priorities that mask the closed cells with 0 instead of infinity
open_costs_masked_zero(cst, closed, heur, shp) ==
    [c \in Cells(shp) |-> Add(IF closed[c] = 1 THEN Zero ELSE cst[c], heur[c])]

\* priorities that weight the heuristic by a factor of 2
open_costs_weighted(cst, closed, heur, shp) ==
    [c \in Cells(shp) |->
        Add(IF closed[c] = 1 THEN Inf ELSE cst[c], Add(heur[c], heur[c]))]

\* line 163: np.where(closed_flags == 1, np.inf, costs) + heuristic
open_costs(cst, closed, heur, shp) ==
    [c \in Cells(shp) |-> Add(IF closed[c] = 1 THEN Inf ELSE cst[c], heur[c])]

\* a selection that takes the first open cell of finite priority, not the minimum
argmin_first_finite(open, shp) ==
    IF \A c \in Cells(shp) : open[c] = Inf THEN <<0, 0>>
    ELSE CHOOSE c \in Cells(shp) :
            /\ open[c] # Inf
            /\ \A d \in Cells(shp) : open[d] # Inf => FlatIndex(c, shp) <= FlatIndex(d, shp)

\* a selection that takes the first open cell of the largest finite priority
argmin_largest_finite(open, shp) ==
    IF \A c \in Cells(shp) : open[c] = Inf THEN <<0, 0>>
    ELSE CHOOSE c \in Cells(shp) :
            /\ open[c] # Inf
            /\ \A d \in Cells(shp) :
                  open[d] # Inf =>
                      /\ ~Less(open[c], open[d])
                      /\ open[d] = open[c] => FlatIndex(c, shp) <= FlatIndex(d, shp)

\* a selection that takes the last minimum of the flattened array
argmin_last(open, shp) ==
    CHOOSE c \in Cells(shp) :
        \A d \in Cells(shp) :
            /\ ~Less(open[d], open[c])
            /\ open[d] = open[c] => FlatIndex(c, shp) >= FlatIndex(d, shp)

\* line 166: argmin returns the first minimum of the flattened array
argmin(open, shp) ==
    CHOOSE c \in Cells(shp) :
        \A d \in Cells(shp) :
            /\ ~Less(open[d], open[c])
            /\ open[d] = open[c] => FlatIndex(c, shp) <= FlatIndex(d, shp)

\* a relaxation that overwrites the neighbour without comparing the costs
relax_one_unconditional(tab, par, neighbor, occ) ==
    LET edge_cost == get_edge_cost(par, neighbor, occ)
        tentative_past_cost == Add(edge_cost, tab.costs[par])
    IN  [costs        |-> [tab.costs EXCEPT ![neighbor] = tentative_past_cost],
         predecessors |-> [tab.predecessors EXCEPT ![neighbor] = par]]

\* a relaxation that leaves the cost of the parent out of the tentative cost
relax_one_edge_only(tab, par, neighbor, occ) ==
    LET edge_cost == get_edge_cost(par, neighbor, occ)
        tentative_past_cost == edge_cost
    IN  IF Less(tentative_past_cost, tab.costs[neighbor])
        THEN [costs        |-> [tab.costs EXCEPT ![neighbor] = tentative_past_cost],
              predecessors |-> [tab.predecessors EXCEPT ![neighbor] = par]]
        ELSE tab

\* lines 184-188: the relaxation of one neighbour
relax_one(tab, par, neighbor, occ) ==
    LET edge_cost == get_edge_cost(par, neighbor, occ)
        tentative_past_cost == Add(edge_cost, tab.costs[par])
    IN  IF Less(tentative_past_cost, tab.costs[neighbor])
        THEN [costs        |-> [tab.costs EXCEPT ![neighbor] = tentative_past_cost],
              predecessors |-> [tab.predecessors EXCEPT ![neighbor] = par]]
        ELSE tab

RECURSIVE relax(_, _, _, _, _)
\* lines 182-188: the loop over the neighbours, in get_neighborhood's order
relax(tab, par, neighbors, i, occ) ==
    IF i > Len(neighbors) THEN tab
    ELSE relax(relax_one(tab, par, neighbors[i], occ), par, neighbors, i + 1, occ)

\* lines 163-188: the body of one iteration on the state s =
\* [costs, closed_flags, predecessors, parent, broke]
loop_body(s, occ, heur, shp) ==
    LET open == open_costs(s.costs, s.closed_flags, heur, shp)
        xy   == argmin(open, shp)
    IN  IF open[xy] = Inf
        THEN [s EXCEPT !.broke = TRUE]
        ELSE LET tab == relax([costs |-> s.costs, predecessors |-> s.predecessors],
                              xy, get_neighborhood(xy, shp), 1, occ)
             IN  [costs        |-> tab.costs,
                  closed_flags |-> [s.closed_flags EXCEPT ![xy] = 1],
                  predecessors |-> tab.predecessors,
                  parent       |-> xy,
                  broke        |-> FALSE]

RECURSIVE search_from(_, _, _, _, _)
\* lines 160-197: the loop run from the state s until its test fails or it breaks
search_from(s, occ, heur, shp, g) ==
    IF s.parent = g \/ s.broke THEN s
    ELSE search_from(loop_body(s, occ, heur, shp), occ, heur, shp, g)

\* lines 141-197: the tables at the end of the loop of one whole run
run_search(occ, shp, st, g, heur) ==
    search_from([costs        |-> [c \in Cells(shp) |-> IF c = st THEN Zero ELSE Inf],
                 closed_flags |-> [c \in Cells(shp) |-> 0],
                 predecessors |-> [c \in Cells(shp) |-> NoCell],
                 parent       |-> st,
                 broke        |-> FALSE], occ, heur, shp, g)

----------------------------------------------------------------------------
(* Reference notions the claims are stated with *)

Adjacent(p, c) == p # c /\ Abs(p[1] - c[1]) <= 1 /\ Abs(p[2] - c[2]) <= 1

MinCost(S) == CHOOSE m \in S : \A x \in S : ~Less(x, m)

RECURSIVE ShortestFrom(_, _, _, _)
\* Bellman-Ford rounds: D[c] is the least cost of a path of at most so many
\* edges from the source to c, an edge p -> c costing get_edge_cost(p, c)
ShortestFrom(D, occ, shp, k) ==
    IF k = 0 THEN D
    ELSE LET D2 == [c \in Cells(shp) |->
                      MinCost({D[c]} \cup
                              {Add(D[p], get_edge_cost(p, c, occ)) :
                                  p \in {q \in Cells(shp) : Adjacent(q, c)}})]
         IN  IF D2 = D THEN D ELSE ShortestFrom(D2, occ, shp, k - 1)

\* the minimum over all 8-connected paths from src to each cell
TrueCost(occ, shp, src) ==
    ShortestFrom([c \in Cells(shp) |-> IF c = src THEN Zero ELSE Inf],
                 occ, shp, shp[1] * shp[2])

RECURSIVE RemainingFrom(_, _, _, _)
\* Bellman-Ford rounds towards the goal: R[c] is the least cost of a path of
\* at most so many edges from c to the goal
RemainingFrom(R, occ, shp, k) ==
    IF k = 0 THEN R
    ELSE LET R2 == [c \in Cells(shp) |->
                      MinCost({R[c]} \cup
                              {Add(get_edge_cost(c, n, occ), R[n]) :
                                  n \in {q \in Cells(shp) : Adjacent(c, q)}})]
         IN  IF R2 = R THEN R ELSE RemainingFrom(R2, occ, shp, k - 1)

\* the true remaining cost from each cell to g
RemainingTo(occ, shp, g) ==
    RemainingFrom([c \in Cells(shp) |-> IF c = g THEN Zero ELSE Inf],
                  occ, shp, shp[1] * shp[2])

\* h never overestimates the remaining cost
Admissible(h, remaining, shp) ==
    \A c \in Cells(shp) : ~Less(remaining[c], h[c])

\* h is 0 at the goal and drops along an edge by no more than the edge costs
Consistent(h, occ, shp, g) ==
    /\ h[g] = Zero
    /\ \A p \in Cells(shp) : \A n \in Cells(shp) :
          Adjacent(p, n) => ~Less(Add(get_edge_cost(p, n, occ), h[n]), h[p])

----------------------------------------------------------------------------
(* Inputs *)

OccValues == {0, 1, 5, 10}

Shapes == {shp \in (1 .. MaxX) \X (1 .. MaxY) : shp[1] * shp[2] <= MaxCells}

Occupied(m) == {c \in DOMAIN m : m[c] # 0}

Maps(shp) ==
    {m \in [Cells(shp) -> OccValues] : Cardinality(Occupied(m)) <= MaxOccupied}

\* lines 150-153: the heuristic table filled from get_heuristic
heuristic_table(shp, g) == [c \in Cells(shp) |-> get_heuristic(c, g)]

\* lines 141-153: the tables as allocated, before the search starts
Allocated ==
    /\ costs = [c \in Cells(shape) |-> Inf]
    /\ closed_flags = [c \in Cells(shape) |-> 0]
    /\ predecessors = [c \in Cells(shape) |-> NoCell]
    /\ parent = NoCell
    /\ paths = << >>
    /\ path_length = Zero
    /\ iterations = 0
    /\ broke = FALSE
    /\ pc = "start"

\* the inputs of one call, with the reference table that belongs to them
Given(shp, m, s, g, h, t) ==
    /\ shape = shp
    /\ occ_map = m
    /\ start = s
    /\ goal = g
    /\ heuristic = h
    /\ shortest = t

\* a map, and a start and a goal inside it, with get_heuristic's table
Init ==
    /\ \E shp \in Shapes : \E m \in Maps(shp) : \E s \in Cells(shp) :
          \E t \in {TrueCost(m, shp, s)} : \E g \in Cells(shp) :
              Given(shp, m, s, g, heuristic_table(shp, g), t)
    /\ Allocated

\* coordinates one step around the grid as well as inside it
Coords(shp) == (-1 .. shp[1]) \X (-1 .. shp[2])

\* a start or a goal outside the grid: the call is made without any check
InitUnchecked ==
    /\ \E shp \in Shapes : \E m \in Maps(shp) : \E s \in Coords(shp) :
          \E t \in {TrueCost(m, shp, IF Indexable(s, shp) THEN At(s, shp) ELSE s)} :
             \E g \in Coords(shp) :
                /\ s \notin Cells(shp) \/ g \notin Cells(shp)
                /\ Given(shp, m, s, g, heuristic_table(shp, g), t)
    /\ Allocated

\* the maps with up to k cells that are not free
MapsUpTo(shp, k) ==
    {m \in [Cells(shp) -> OccValues] : Cardinality(Occupied(m)) <= k}

\* a call with the start or the goal on a cell of occupancy 0.5 or more, and
\* up to MaxOccupied further cells that are not free
InitOccupancy ==
    /\ \E shp \in Shapes : \E M \in {MapsUpTo(shp, MaxOccupied + 1)} :
          \E m \in M : \E s \in Cells(shp) : \E t \in {TrueCost(m, shp, s)} :
             \E g \in Cells(shp) :
                /\ m[s] >= OccThreshold \/ m[g] >= OccThreshold
                /\ Given(shp, m, s, g, heuristic_table(shp, g), t)
    /\ Allocated

\* a heuristic that is positive on one cell
SingleCellTables(shp) ==
    {[c \in Cells(shp) |-> IF c = d THEN Fin(v, 0) ELSE Zero] :
        d \in Cells(shp), v \in 0 .. MaxHeuristic}

\* the octile distance to the goal: the cost of the free 8-connected path
octile_table(shp, g) ==
    [c \in Cells(shp) |->
        LET dx == Abs(c[1] - g[1])
            dy == Abs(c[2] - g[2])
        IN  IF dx < dy THEN Fin(dy - dx, dx) ELSE Fin(dx - dy, dy)]

\* get_heuristic replaced by an admissible table (the A-star case)
InitHeuristic ==
    /\ \E shp \in Shapes : \E H \in {SingleCellTables(shp)} : \E m \in Maps(shp) :
          \E g \in Cells(shp) : \E remaining \in {RemainingTo(m, shp, g)} :
             \E s \in Cells(shp) : \E t \in {TrueCost(m, shp, s)} :
                \E h \in {x \in H \cup {octile_table(shp, g)} : Admissible(x, remaining, shp)} :
                   Given(shp, m, s, g, h, t)
    /\ Allocated

----------------------------------------------------------------------------
(* Steps of run_path_planning *)

\* lines 156-157
StartSearch ==
    /\ pc = "start"
    /\ IF Indexable(start, shape)
       THEN /\ parent' = start
            /\ costs' = [costs EXCEPT ![At(start, shape)] = Zero]
            /\ pc' = "loop"
       ELSE /\ parent' = start
            /\ pc' = "IndexError"
            /\ UNCHANGED costs
    /\ UNCHANGED <<shape, occ_map, start, goal, heuristic, shortest, closed_flags,
                   predecessors, paths, path_length, iterations, broke>>

\* a loop that runs its body before it tests parent against goal
Iterate_dowhile ==
    /\ pc = "loop"
    /\ \E s \in {loop_body([costs |-> costs, closed_flags |-> closed_flags,
                              predecessors |-> predecessors, parent |-> parent,
                              broke |-> FALSE], occ_map, heuristic, shape)} :
           /\ costs' = s.costs
           /\ closed_flags' = s.closed_flags
           /\ predecessors' = s.predecessors
           /\ parent' = s.parent
           /\ broke' = s.broke
           /\ iterations' = iterations + 1
           /\ pc' = IF s.broke THEN "endloop" ELSE "loop"
    /\ UNCHANGED <<shape, occ_map, start, goal, heuristic, shortest, paths, path_length>>

\* lines 160-197: the loop test holds and the body runs once (the plotting of
\* lines 190-197 reads the tables and writes none of them)
Iterate ==
    /\ pc = "loop"
    /\ parent # goal
    /\ \E s \in {loop_body([costs |-> costs, closed_flags |-> closed_flags,
                              predecessors |-> predecessors, parent |-> parent,
                              broke |-> FALSE], occ_map, heuristic, shape)} :
           /\ costs' = s.costs
           /\ closed_flags' = s.closed_flags
           /\ predecessors' = s.predecessors
           /\ parent' = s.parent
           /\ broke' = s.broke
           /\ iterations' = iterations + 1
           /\ pc' = IF s.broke THEN "endloop" ELSE "loop"
    /\ UNCHANGED <<shape, occ_map, start, goal, heuristic, shortest, paths, path_length>>

\* line 160: the loop test fails
LoopExit ==
    /\ pc = "loop"
    /\ parent = goal
    /\ pc' = "endloop"
    /\ UNCHANGED <<shape, occ_map, start, goal, heuristic, shortest, costs, closed_flags,
                   predecessors, parent, paths, path_length, iterations, broke>>

\* a reconstruction that is started whatever way the loop ended
AfterLoop_unconditional ==
    /\ pc = "endloop"
    /\ path_length' = Zero
    /\ pc' = "rewind"
    /\ UNCHANGED <<shape, occ_map, start, goal, heuristic, shortest, costs, closed_flags,
                   predecessors, parent, paths, iterations, broke>>

\* lines 200-201 and 220-221
AfterLoop ==
    /\ pc = "endloop"
    /\ IF parent = goal
       THEN /\ path_length' = Zero
            /\ pc' = "rewind"
       ELSE /\ pc' = "Exhausted"
            /\ UNCHANGED path_length
    /\ UNCHANGED <<shape, occ_map, start, goal, heuristic, shortest, costs, closed_flags,
                   predecessors, parent, paths, iterations, broke>>

\* a walk that puts the goal into the path as well
RewindStep_with_goal ==
    /\ pc = "rewind"
    /\ predecessors[At(parent, shape)][1] >= 0
    /\ paths' = Append(paths, parent)
    /\ LET predecessor == predecessors[At(parent, shape)]
       IN  /\ path_length' = Add(path_length, norm(parent, predecessor))
           /\ parent' = predecessor
    /\ UNCHANGED <<shape, occ_map, start, goal, heuristic, shortest, costs, closed_flags,
                   predecessors, iterations, broke, pc>>

\* lines 202-214: one iteration of the walk along the predecessors
RewindStep ==
    /\ pc = "rewind"
    /\ predecessors[At(parent, shape)][1] >= 0
    /\ paths' = IF parent # goal THEN Append(paths, parent) ELSE paths
    /\ LET predecessor == predecessors[At(parent, shape)]
       IN  /\ path_length' = Add(path_length, norm(parent, predecessor))
           /\ parent' = predecessor
    /\ UNCHANGED <<shape, occ_map, start, goal, heuristic, shortest, costs, closed_flags,
                   predecessors, iterations, broke, pc>>

\* lines 202 and 216-219: the walk ends and the result is printed
RewindEnd ==
    /\ pc = "rewind"
    /\ ~(predecessors[At(parent, shape)][1] >= 0)
    /\ pc' = "GoalFound"
    /\ UNCHANGED <<shape, occ_map, start, goal, heuristic, shortest, costs, closed_flags,
                   predecessors, parent, paths, path_length, iterations, broke>>

Next ==
    \/ StartSearch
    \/ Iterate
    \/ LoopExit
    \/ AfterLoop
    \/ RewindStep
    \/ RewindEnd

Spec == Init /\ [][Next]_vars

SpecUnchecked == InitUnchecked /\ [][Next]_vars

SpecHeuristic == InitHeuristic /\ [][Next]_vars

SpecOccupancy == InitOccupancy /\ [][Next]_vars

----------------------------------------------------------------------------
(* Notions over the state *)

ClosedCells == {c \in Cells(shape) : closed_flags[c] = 1}

Blocked(c) == occ_map[c] >= OccThreshold

----------------------------------------------------------------------------
(* C1: with the zero heuristic, in every reachable state the cost of every
   closed cell is the minimum over all 8-connected paths from start of the
   summed edge costs; when the loop ends with parent = goal, the cost of the
   goal is the minimum path cost from start to goal. *)
C1_ClosedCostIsShortest ==
    /\ \A c \in ClosedCells : costs[c] = shortest[c]
    /\ (pc = "endloop" /\ parent = goal) => costs[goal] = shortest[goal]

\* the goal was found three steps away past a penalised cell
C1_Witness ==
    /\ pc = "endloop"
    /\ parent = goal
    /\ Cardinality(ClosedCells) >= 5
    /\ \E c \in Cells(shape) : occ_map[c] = 1 /\ closed_flags[c] = 1
    /\ ~Adjacent(start, goal)

(* C2: for start # goal the loop ends with parent = goal exactly when some
   path from start to goal has only edges of finite cost, and ends by the
   infinite-minimum break otherwise. *)
C2_GoalFoundIffReachable ==
    (pc = "endloop" /\ start # goal) =>
        /\ (parent = goal) <=> ~shortest[goal].inf
        /\ broke <=> shortest[goal].inf

\* the loop broke although the goal cell itself is free
C2_Witness ==
    /\ pc = "endloop"
    /\ broke
    /\ start # goal
    /\ ~Blocked(goal)

(* C3: the loop terminates: every iteration that does not break closes one
   cell that was not closed before, and the loop body is entered at most
   width * height times, the breaking iteration included. *)
C3_LoopTerminates ==
    /\ [](iterations <= shape[1] * shape[2])
    /\ [](Cardinality(ClosedCells) = IF broke THEN iterations - 1 ELSE iterations)
    /\ [][(pc = "loop" /\ pc' = "loop") =>
            /\ closed_flags[parent'] = 0
            /\ closed_flags' = [closed_flags EXCEPT ![parent'] = 1]]_vars

\* a loop that closed every cell but the goal's and then found the goal
C3_Witness ==
    /\ pc = "endloop"
    /\ shape[1] * shape[2] >= 8
    /\ iterations = shape[1] * shape[2]

(* C4: a cell of occupancy >= 0.5 other than start keeps cost +infinity and
   predecessor (-1,-1) in every reachable state, is never selected for
   closing, and is neither on the walk from goal to start nor in the path. *)
C4_BlockedNeverOnPath ==
    \A c \in Cells(shape) :
        (Blocked(c) /\ c # start) =>
            /\ costs[c] = Inf
            /\ predecessors[c] = NoCell
            /\ closed_flags[c] = 0
            /\ parent # c
            /\ \A i \in 1 .. Len(paths) : paths[i] # c

\* a path was found on a map with a cell of occupancy exactly 0.5 between
C4_Witness ==
    /\ pc = "GoalFound"
    /\ Len(paths) >= 2
    /\ \E c \in Cells(shape) :
          occ_map[c] = OccThreshold /\ Adjacent(c, start) /\ c # goal

(* Scenarios on the 3x3 map, start (0,0), goal (2,2) *)

Corner33 == shape = <<3, 3>> /\ start = <<0, 0>> /\ goal = <<2, 2>>

ScenarioA == Corner33 /\ \A c \in Cells(shape) : occ_map[c] = 0

ScenarioB ==
    Corner33 /\ \A c \in Cells(shape) : occ_map[c] = IF c = <<1, 1>> THEN 10 ELSE 0

Finished == pc \in {"GoalFound", "Exhausted", "IndexError"}

(* C6 as stated: in scenario B the search ends in GoalFound with
   costs[goal] = 1+1+1+1 = 4, and (1,1) is not on the path. *)
C6_ScenarioB_CostFour ==
    (ScenarioB /\ Finished) =>
        /\ pc = "GoalFound"
        /\ costs[goal] = Fin(4, 0)
        /\ \A i \in 1 .. Len(paths) : paths[i] # <<1, 1>>

(* C6 amended: in scenario B the search ends in GoalFound with
   costs[goal] = 2 + sqrt(2), two orthogonal steps and one diagonal step
   around (1,1), and (1,1) is not on the path. *)
C6_ScenarioB_Detour ==
    (ScenarioB /\ Finished) =>
        /\ pc = "GoalFound"
        /\ costs[goal] = Fin(2, 1)
        /\ Len(paths) = 2
        /\ \A i \in 1 .. Len(paths) : paths[i] # <<1, 1>>

C6_Witness == ScenarioB /\ pc = "GoalFound"

(* C7: in scenario A the search ends in GoalFound with costs[goal] and
   path_length both 2*sqrt(2), along the chain goal -> (1,1) -> start. *)
C7_ScenarioA ==
    (ScenarioA /\ Finished) =>
        /\ pc = "GoalFound"
        /\ costs[goal] = Fin(0, 2)
        /\ path_length = Fin(0, 2)
        /\ predecessors[goal] = <<1, 1>>
        /\ predecessors[<<1, 1>>] = start
        /\ paths = << <<1, 1>> >>
        /\ parent = start

C7_Witness == ScenarioA /\ pc = "GoalFound"

(* C8: when goal # start and every in-bounds neighbour of start has
   occupancy >= 0.5, the search closes exactly the start cell, finds an
   infinite minimum in its second iteration and ends in Exhausted, and no
   path is reconstructed. *)
StartWalledIn ==
    /\ goal # start
    /\ \A n \in Cells(shape) : Adjacent(n, start) => Blocked(n)

C8_WalledInExhausts ==
    StartWalledIn =>
        /\ pc \notin {"rewind", "GoalFound"}
        /\ ClosedCells \subseteq {start}
        /\ paths = << >>
        /\ pc \in {"endloop", "Exhausted"} =>
              /\ ClosedCells = {start}
              /\ broke
              /\ iterations = 2

\* the start is walled in and the goal, a free cell, lies beyond the wall
C8_Witness ==
    /\ StartWalledIn
    /\ pc = "Exhausted"
    /\ ~Blocked(goal)
    /\ shape[1] * shape[2] >= 3

(* C9: when start = goal, for every map, no loop iteration runs, the run
   ends in GoalFound, the path is empty and costs[goal] and path_length
   are both 0. *)
C9_StartIsGoal ==
    start = goal =>
        /\ iterations = 0
        /\ ~broke
        /\ pc # "Exhausted"
        /\ paths = << >>
        /\ pc \in {"start", "loop", "endloop", "rewind", "GoalFound"}
        /\ pc # "start" => costs[goal] = Zero /\ parent = goal
        /\ predecessors[goal] = NoCell
        /\ pc = "GoalFound" => path_length = Zero /\ ClosedCells = {}

\* start = goal on an occupied cell, with another cell of the map to go to
C9_Witness ==
    /\ start = goal
    /\ Blocked(goal)
    /\ pc = "GoalFound"
    /\ shape[1] * shape[2] >= 2

----------------------------------------------------------------------------
(* The A-star case *)

ZeroTable == [c \in Cells(shape) |-> Zero]

\* the end of the loop of the run with the zero heuristic on the same inputs
ZeroRun == run_search(occ_map, shape, start, goal, ZeroTable)

SameResultAsZeroRun ==
    LET z == ZeroRun
    IN  /\ (parent = goal) <=> (z.parent = goal)
        /\ broke <=> z.broke
        /\ parent = goal => costs[goal] = z.costs[goal]

(* C5 as stated: the run with the zero heuristic and the run with any
   admissible heuristic, consistent or not, end in the same outcome and,
   when the goal is found, with equal costs[goal]. *)
C5_AdmissibleSameResult ==
    (pc = "endloop" /\ Admissible(heuristic, RemainingTo(occ_map, shape, goal), shape))
        => SameResultAsZeroRun

(* C5 amended: the run with the zero heuristic and the run with any
   consistent heuristic (0 at the goal, heuristic[p] <= get_edge_cost(p, n)
   + heuristic[n] on every edge) end in the same outcome and, when the goal
   is found, with equal costs[goal]. *)
C5_ConsistentSameResult ==
    (pc = "endloop" /\ Consistent(heuristic, occ_map, shape, goal))
        => SameResultAsZeroRun

\* a consistent positive heuristic found the goal closing fewer cells
C5_Witness ==
    /\ pc = "endloop"
    /\ parent = goal
    /\ Consistent(heuristic, occ_map, shape, goal)
    /\ heuristic # ZeroTable
    /\ \E c \in Cells(shape) : occ_map[c] # 0
    /\ LET z == ZeroRun
       IN  {c \in Cells(shape) : z.closed_flags[c] = 1} # ClosedCells

----------------------------------------------------------------------------
(* Coordinates outside the grid *)

(* C10: a start or goal outside the grid is rejected before the search
   starts: no cost, closed-flag or predecessor entry is written and no loop
   iteration runs for such an input. *)
C10_InvalidCoordinateRejected ==
    (start \notin Cells(shape) \/ goal \notin Cells(shape)) =>
        /\ iterations = 0
        /\ \A c \in Cells(shape) :
              costs[c] = Inf /\ closed_flags[c] = 0 /\ predecessors[c] = NoCell
        /\ pc \notin {"loop", "endloop", "rewind", "GoalFound", "Exhausted"}

----------------------------------------------------------------------------
(* Reconstruction *)

(* C11: the reconstruction runs only when the loop ended with parent = goal;
   when the loop ended by its break the run goes to Exhausted, a final state
   of the normal flow in which no step of the predecessor walk was taken and
   the path is empty. *)
C11_ReconstructionOnlyOnGoal ==
    /\ [][(pc = "endloop" /\ pc' = "rewind") => (parent = goal /\ ~broke)]_vars
    /\ [][(pc = "endloop" /\ parent # goal) => pc' = "Exhausted"]_vars
    /\ [][pc # "Exhausted"]_vars
    /\ [](pc \in {"rewind", "GoalFound"} => ~broke)
    /\ [](pc = "Exhausted" =>
            /\ broke
            /\ parent # goal
            /\ paths = << >>
            /\ path_length = Zero)
    /\ [](pc # "IndexError")

\* the search was exhausted after it had set predecessors of several cells
C11_Witness ==
    /\ pc = "Exhausted"
    /\ Cardinality(ClosedCells) >= 3
    /\ \E c \in Cells(shape) : predecessors[c] # NoCell /\ closed_flags[c] = 1

----------------------------------------------------------------------------
(* The tables during the search *)

(* C12: from line 157 on to the end of the run the cost of start is 0: no
   relaxation overwrites it, and the predecessor of start stays (-1,-1) in
   every state. *)
C12_StartCostZero ==
    /\ pc # "start" => costs[start] = Zero
    /\ predecessors[start] = NoCell

\* every neighbour of an inner start cell was expanded with start next to it
C12_Witness ==
    /\ pc = "GoalFound"
    /\ Cardinality({n \in Cells(shape) : Adjacent(n, start)}) = 8
    /\ \A n \in Cells(shape) : Adjacent(n, start) => closed_flags[n] = 1

(* C13: once the closed flag of a cell is set, no later step changes its
   cost or its predecessor: the test of line 186, which is applied to
   closed neighbours too, never holds for one of them. *)
C13_ClosedEntryFinal ==
    [][\A c \in Cells(shape) :
          closed_flags[c] = 1 =>
              /\ costs'[c] = costs[c]
              /\ predecessors'[c] = predecessors[c]
              /\ (pc = "loop" /\ pc' = "loop" /\ Adjacent(c, parent')) =>
                    ~Less(Add(get_edge_cost(parent', c, occ_map), costs[parent']),
                          costs[c])]_vars

\* the cell just expanded has a closed neighbour that was reached at a
\* penalised cost, and another closed neighbour
C13_Witness ==
    /\ pc = "loop"
    /\ \E c \in ClosedCells :
          /\ Adjacent(c, parent)
          /\ occ_map[c] = 1
          /\ c # start
    /\ Cardinality({c \in ClosedCells : Adjacent(c, parent)}) >= 2

(* C14: a cell enters the closed set exactly once: the cell selected by an
   iteration that does not break has its closed flag at 0 when it is
   selected, the iteration sets the flag of that cell and of no other, and
   no step clears a closed flag. *)
C14_ClosedExactlyOnce ==
    /\ [][\A c \in Cells(shape) : closed_flags[c] = 1 => closed_flags'[c] = 1]_vars
    /\ [][(pc = "loop" /\ pc' = "loop") =>
            /\ parent' \notin ClosedCells
            /\ ClosedCells' = ClosedCells \cup {parent'}]_vars
    /\ [][(pc # "loop" \/ pc' # "loop") => closed_flags' = closed_flags]_vars

\* six cells were closed one after the other and the search goes on
C14_Witness ==
    /\ pc = "loop"
    /\ parent # goal
    /\ iterations = 6
    /\ Cardinality(ClosedCells) = 6

(* The chain of predecessors from a cell: the cell, its predecessor, and so
   on, until a cell without predecessor or until n links were followed *)

RECURSIVE ChainFrom(_, _)
ChainFrom(c, n) ==
    IF n = 0 \/ predecessors[c] = NoCell THEN <<c>>
    ELSE <<c>> \o ChainFrom(predecessors[c], n - 1)

Chain(c) == ChainFrom(c, shape[1] * shape[2])

NoRepeat(seq) == \A i, j \in 1 .. Len(seq) : seq[i] = seq[j] => i = j

(* C15: in every reachable state the predecessor links are acyclic: the
   chain from any cell whose predecessor is set visits no cell twice and
   ends at start, and so the walk of the reconstruction ends with the
   current cell equal to start. *)
C15_PredecessorsAcyclic ==
    /\ \A c \in Cells(shape) :
          predecessors[c] # NoCell =>
              LET ch == Chain(c)
              IN  /\ NoRepeat(ch)
                  /\ ch[Len(ch)] = start
                  /\ Len(ch) <= shape[1] * shape[2]
    /\ pc = "rewind" =>
          /\ parent \in Cells(shape)
          /\ \E i \in 1 .. Len(Chain(goal)) : Chain(goal)[i] = parent
    /\ pc = "GoalFound" => parent = start

\* a walk along a chain of three links has ended at start, on a map where
\* other cells have predecessors too
C15_Witness ==
    /\ pc = "GoalFound"
    /\ Len(Chain(goal)) = 4
    /\ \E c \in Cells(shape) :
          predecessors[c] # NoCell /\ \A i \in 1 .. 4 : Chain(goal)[i] # c

(* Row-major order of the cells: smaller x first, then smaller y *)
RowMajorBefore(c, d) == c[1] < d[1] \/ (c[1] = d[1] /\ c[2] < d[2])

Priority(c) == Add(costs[c], heuristic[c])

OpenCells == Cells(shape) \ ClosedCells

(* C16: in every iteration that does not break, the cell selected for
   closing is an open cell, no open cell has a strictly lower costs +
   heuristic at the moment of selection, and no open cell of equal costs +
   heuristic comes before it in row-major order. *)
C16_RowMajorTieBreak ==
    [][(pc = "loop" /\ pc' = "loop") =>
          /\ parent' \in OpenCells
          /\ \A d \in OpenCells :
                /\ ~Less(Priority(d), Priority(parent'))
                /\ Priority(d) = Priority(parent') => ~RowMajorBefore(d, parent')]_vars

\* the cell just closed was selected out of a tie: an open cell that comes
\* later in row-major order has the cost the selected cell has, and another
\* open cell that comes before it has a higher finite cost
C16_Witness ==
    /\ pc = "loop"
    /\ closed_flags[parent] = 1
    /\ parent # start
    /\ \E d \in OpenCells : costs[d] = costs[parent] /\ RowMajorBefore(parent, d)
    /\ \E d \in OpenCells :
          /\ RowMajorBefore(d, parent)
          /\ ~costs[d].inf
          /\ predecessors[d] # parent

(* The Euclidean length of one link between two adjacent cells *)
StepLength(p, c) == IF p[1] = c[1] \/ p[2] = c[2] THEN Fin(1, 0) ELSE Fin(0, 1)

RECURSIVE LengthOf(_, _)
LengthOf(seq, i) ==
    IF i >= Len(seq) THEN Zero
    ELSE Add(StepLength(seq[i], seq[i + 1]), LengthOf(seq, i + 1))

(* C17: after a reconstruction the path list holds exactly the cells of the
   predecessor chain strictly between goal and start, in the order from goal
   to start, with neither goal nor start in it, and path_length is the sum
   of the step lengths (1 or sqrt(2)) over all links of the chain from goal
   to start. *)
C17_PathIsInnerChain ==
    pc = "GoalFound" =>
        LET ch == Chain(goal)
        IN  /\ ch[1] = goal
            /\ ch[Len(ch)] = start
            /\ paths = SubSeq(ch, 2, Len(ch) - 1)
            /\ \A i \in 1 .. Len(paths) : paths[i] # goal /\ paths[i] # start
            /\ path_length = LengthOf(ch, 1)

\* a path of two inner cells with orthogonal and diagonal links, past a
\* penalised cell, so that the length is not the cost
C17_Witness ==
    /\ pc = "GoalFound"
    /\ Len(paths) = 2
    /\ path_length.a >= 1
    /\ path_length.b >= 1
    /\ costs[goal] # path_length

RECURSIVE EdgeCostSum(_, _)
\* the sum of the edge costs along a chain goal .. start, each link taken in
\* the direction of the search, from the predecessor to the cell
EdgeCostSum(seq, i) ==
    IF i >= Len(seq) THEN Zero
    ELSE Add(get_edge_cost(seq[i + 1], seq[i], occ_map), EdgeCostSum(seq, i + 1))

(* C18: in every reachable state, for every cell n whose predecessor p is
   set: p is a closed cell, p is one of the 8 in-bounds neighbours of n, the
   occupancy of n is below 0.5, and costs[n] = costs[p] + get_edge_cost(p, n);
   hence in GoalFound costs[goal] is the sum of the edge costs along the
   reconstructed chain from start to goal. *)
C18_PredecessorLinks ==
    /\ \A n \in Cells(shape) :
          predecessors[n] # NoCell =>
              LET p == predecessors[n]
              IN  /\ p \in Cells(shape)
                  /\ closed_flags[p] = 1
                  /\ Adjacent(p, n)
                  /\ occ_map[n] < OccThreshold
                  /\ costs[n] = Add(costs[p], get_edge_cost(p, n, occ_map))
    /\ pc = "GoalFound" => costs[goal] = EdgeCostSum(Chain(goal), 1)

\* an open cell with three closed neighbours that has the diagonal one as
\* its predecessor, and a penalised cell with a predecessor
C18_Witness ==
    /\ pc = "loop"
    /\ \E n \in OpenCells :
          /\ predecessors[n] # NoCell
          /\ StepLength(predecessors[n], n) = Fin(0, 1)
          /\ Cardinality({q \in ClosedCells : Adjacent(q, n)}) >= 3
    /\ \E n \in Cells(shape) : occ_map[n] = 1 /\ predecessors[n] # NoCell

(* C19: with the zero heuristic the cells are closed in non-decreasing order
   of cost: the cost of the cell closed by an iteration is not below the
   cost of the cell closed by the iteration before it, nor below the cost of
   any cell closed earlier, and every closed cell has a finite cost. *)
C19_ClosingCostNonDecreasing ==
    /\ [][(pc = "loop" /\ pc' = "loop" /\ iterations >= 1) =>
            /\ closed_flags[parent] = 1
            /\ ~Less(costs'[parent'], costs[parent])
            /\ ~Less(costs'[parent'], costs'[parent])]_vars
    /\ []((pc = "loop" /\ iterations >= 1) =>
            \A c \in ClosedCells : ~Less(costs[parent], costs[c]))
    /\ [](\A c \in ClosedCells : ~costs[c].inf)

\* the cell just closed costs as much as one closed earlier and more than
\* another one that is not start
C19_Witness ==
    /\ pc = "loop"
    /\ iterations >= 4
    /\ \E c \in ClosedCells : c # parent /\ costs[c] = costs[parent]
    /\ \E c \in ClosedCells : c # start /\ Less(costs[c], costs[parent])

----------------------------------------------------------------------------
(* Occupancy of the start and of the goal *)

(* C20: the occupancy is tested on the child of an edge only, never on
   start: when goal # start and the occupancy of goal is 0.5 or more the
   search never finds the goal and every finished run is Exhausted, whatever
   the rest of the map is; a start of occupancy 0.5 or more is closed by the
   first iteration all the same, and its neighbours are relaxed from it. *)
C20_OccupancyOnChildOnly ==
    /\ (goal # start /\ Blocked(goal)) =>
          /\ pc \notin {"rewind", "GoalFound"}
          /\ closed_flags[goal] = 0
          /\ costs[goal] = Inf
          /\ pc = "endloop" => (broke /\ parent # goal)
          /\ Finished => pc = "Exhausted"
    /\ (Blocked(start) /\ iterations >= 1) =>
          /\ closed_flags[start] = 1
          /\ costs[start] = Zero
          /\ (iterations = 1 /\ pc = "loop") =>
                /\ parent = start
                /\ \A n \in Cells(shape) :
                      Adjacent(start, n) =>
                          /\ costs[n] = get_edge_cost(start, n, occ_map)
                          /\ ~Blocked(n) => predecessors[n] = start

\* from a start of occupancy 1.0 the goal was found, past a penalised cell
C20_Witness ==
    /\ pc = "GoalFound"
    /\ occ_map[start] = 10
    /\ Len(paths) >= 2
    /\ \E i \in 1 .. Len(paths) : occ_map[paths[i]] = 1

\* the goal is walled off by its own occupancy alone: every other cell of
\* the map was closed before the search was exhausted
C20_BlockedGoalExhausted ==
    /\ pc = "Exhausted"
    /\ occ_map[goal] = OccThreshold
    /\ ClosedCells = Cells(shape) \ {goal}
    /\ \E c \in ClosedCells : occ_map[c] = 1
    /\ shape[1] * shape[2] >= 6

====
